---- MODULE Spec2Model ----
(***************************************************************************)
(* Periodic advertising synchronization, upper link layer                  *)
(* (subsys/bluetooth/controller/ll_sw/ull_sync.c).                         *)
(*                                                                         *)
(* Execution contexts, lowest to highest priority: the host thread (the    *)
(* ll_sync_* API, one call at a time, position in pc), ULL_LOW (the        *)
(* scheduler job that completes ticker operations), ULL_HIGH               *)
(* (ull_sync_setup, ull_sync_done, ticker_cb, sync_lost).  A handler of a  *)
(* higher context is one atomic step for the contexts below it; the thread *)
(* is preempted between any two of its steps.                              *)
(***************************************************************************)
EXTENDS Integers, Sequences, FiniteSets, TLC

(***************************************************************************)
(* Bounds of the model                                                     *)
(***************************************************************************)
\* CONFIG_BT_PER_ADV_SYNC_MAX: size of ll_sync_pool
SyncMax == 2
\* notification-transport links of the rx link pool
MaxLinks == 4
\* notification buffers of the rx buffer pool
MaxRx == 1

(***************************************************************************)
(* Program constants                                                       *)
(***************************************************************************)
SCAN_HANDLE_1M == 0
SCAN_HANDLE_PHY_CODED == 1
DOUBLE_BUFFER_SIZE == 2
PDU_SYNC_INFO_SCA_CHM_SCA_BYTE_OFFSET == 4
PDU_SYNC_INFO_SCA_CHM_SCA_BIT_MASK == 224
PDU_SYNC_INFO_SCA_CHM_SCA_BIT_POS == 5
BT_DATA_CHANNEL_MAP_UPDATE_IND == 40
CONN_INT_UNIT_US == 1250
CHM_UPD_IND_SIZE == 7
PDU_CHANNEL_MAP_SIZE == 5
UINT16 == 65536

NULL == 0 - 1
Handles == 0 .. (SyncMax - 1)
Links == 1 .. MaxLinks
RxBufs == 1 .. MaxRx
NO_LINK == 0
NO_RX == 0
ScanHandles == {SCAN_HANDLE_1M, SCAN_HANDLE_PHY_CODED}

VARIABLES
    phy_coded,      \* IS_ENABLED(CONFIG_BT_CTLR_PHY_CODED)
    per_scan,       \* scan sets: [sync, node_rx_estab] per scan handle
    ll_sync_pool,   \* the sync contexts, by handle
    sync_free,      \* free list of ll_sync_pool (head first)
    link_free,      \* the free links of the rx link pool
    rx_free,        \* the free buffers of the rx buffer pool
    rx_link,        \* node_rx->link of each rx buffer
    rx_queue,       \* notifications enqueued by ll_rx_put, oldest first
    cancel_rx,      \* handle whose node_rx_lost ll_sync_create_cancel returned, or NULL
    ticker_node,    \* per handle: scheduler entry is running
    ticker_ops,     \* issued scheduler operations, in issuance order
    ull_ref,        \* per handle: ull_hdr reference count (events in flight)
    mfy_sync_lost,  \* param of the pending sync_lost mayfly, or NULL
    disable_mark,   \* ull_disable_mark_get(): a handle or NULL
    pc,             \* position of the thread inside the ll_sync_* API
    tl,             \* locals of the call the thread is in; sem is the count
                    \* of sem_ticker_cb, the semaphore the call waits on
    api,            \* result of the last API call that returned
    fatal,          \* the LL_ASSERT that failed, or "none"
    errs,           \* observed misuse of a resource (double release, ...)
    obs             \* per handle: observations of the context's lifetime

vars == <<phy_coded, per_scan, ll_sync_pool, sync_free, link_free, rx_free,
          rx_link, rx_queue, cancel_rx, ticker_node, ticker_ops, ull_ref,
          mfy_sync_lost, disable_mark, pc, tl, api, fatal, errs, obs>>

(***************************************************************************)
(* Helpers                                                                 *)
(***************************************************************************)
Range(s) == {s[i] : i \in DOMAIN s}

RECURSIVE Ones(_)
\* number of one bits of a byte
Ones(b) == IF b = 0 THEN 0 ELSE (b % 2) + Ones(b \div 2)

RECURSIVE util_ones_count_get(_)
\* util_ones_count_get(octets, len): one bits of a byte sequence
util_ones_count_get(m) ==
    IF m = <<>> THEN 0 ELSE Ones(Head(m)) + util_ones_count_get(Tail(m))

\* mem_release(): push on the free list
mem_release(free, x) == <<x>> \o free

\* The rx link and rx buffer pools are kept as the sets of their free
\* elements: which free element an acquisition returns is immaterial, the
\* lowest one stands for it.
pool_acquire(free) == CHOOSE x \in free : \A y \in free : x <= y
pool_rest(free) == free \ {pool_acquire(free)}
pool_release(free, x) == free \cup {x}

\* a release of x to a pool it is already free in
DoubleRelease(free, x, what) == IF x \in free THEN {what} ELSE {}

ZeroMap == <<0, 0, 0, 0, 0>>
ChmZeroEntry == [data_chan_map |-> ZeroMap, data_chan_count |-> 0]

\* a struct ll_sync_set of the zero-initialised static pool
SyncZero ==
    [skip |-> 0, timeout |-> 0, timeout_reload |-> 0, timeout_expire |-> 0,
     skip_prepare |-> 0, skip_event |-> 0,
     window_widening_prepare_us |-> 0, window_widening_event_us |-> 0,
     is_rx_enabled |-> 0,
     chm_first |-> 0, chm_last |-> 0,
     chm |-> [i \in 0 .. (DOUBLE_BUFFER_SIZE - 1) |-> ChmZeroEntry],
     chm_instant |-> 0,
     lost_link |-> NO_LINK]

\* observations of one context's lifetime (not program state)
ObsZero ==
    [lost |-> "idle",     \* loss-notification link: idle, armed, consumed
     estab_put |-> 0,     \* establishment notifications enqueued this lifetime
     start_after_put |-> TRUE, \* the ticker start followed the enqueue
     lost_put |-> 0,      \* sync-lost notifications enqueued this lifetime
     miss |-> 0,          \* consecutive events without valid reception
     loss_at |-> 0,       \* value of miss when loss was declared (0: not yet)
     stops |-> 0]         \* scheduler stops issued by timeout_cleanup

\* *rx of ll_sync_create_cancel before a call has written it
NoRx == [type |-> "NONE", handle |-> 0, status |-> "NONE", param |-> NULL]

\* the context of handle h is not on the free list
Allocated(h) == h \notin Range(sync_free)

ThreadIdle == pc = "idle" /\ fatal = "none"

\* the thread runs only while no higher-priority work is pending
ThreadRuns == fatal = "none" /\ mfy_sync_lost = NULL /\ ticker_ops = <<>>

\* the result of an API call: stage is the acquisition that failed in
\* ll_sync_create (0: none); again tells that the call is an ll_sync_terminate
\* that follows a successful ll_sync_terminate of the same handle
Returned(op, h, code, stage) ==
    [op |-> op, handle |-> h, ret |-> code, stage |-> stage,
     again |-> op = "terminate" /\ api.op = "terminate"
               /\ api.handle = h /\ api.ret = "SUCCESS"]

(***************************************************************************)
(* Init: state after ull_sync_init() (init_reset)                          *)
(***************************************************************************)
\* mem_init(): every block on the free list, lowest first
init_reset == [i \in 1 .. SyncMax |-> i - 1]

\* Init with nl links and nr buffers free in the rx pools, the others being
\* held by the rest of the controller
InitPools(nl, nr) ==
    /\ phy_coded \in BOOLEAN
    /\ per_scan = [s \in ScanHandles |-> [sync |-> NULL, node_rx_estab |-> NO_RX]]
    /\ ll_sync_pool = [h \in Handles |-> SyncZero]
    /\ sync_free = init_reset
    /\ link_free = 1 .. nl
    /\ rx_free = 1 .. nr
    /\ rx_link = [b \in RxBufs |-> NO_LINK]
    /\ rx_queue = <<>>
    /\ cancel_rx = NULL
    /\ ticker_node = [h \in Handles |-> FALSE]
    /\ ticker_ops = <<>>
    /\ ull_ref = [h \in Handles |-> 0]
    /\ mfy_sync_lost = NULL
    /\ disable_mark = NULL
    /\ pc = "idle"
    /\ tl = [handle |-> NULL, sync |-> NULL, ret_cb |-> "BUSY", rx |-> NoRx,
             ret |-> "BUSY", sem |-> 0]
    /\ api = [op |-> "none", handle |-> NULL, ret |-> "SUCCESS", stage |-> 0,
              again |-> FALSE]
    /\ fatal = "none"
    /\ errs = {}
    /\ obs = [h \in Handles |-> ObsZero]

Init == InitPools(MaxLinks, MaxRx)

(***************************************************************************)
(* Notification transport (ll_rx_link_alloc, ll_rx_alloc, releases, put)   *)
(***************************************************************************)
\* ll_rx_link_release(link) on the pools pl = [lf, rf, sf, er]
ll_rx_link_release(pl, link) ==
    [pl EXCEPT !.lf = pool_release(pl.lf, link),
               !.er = pl.er \cup DoubleRelease(pl.lf, link, "link_double_release")]

\* ll_rx_release(node_rx)
ll_rx_release(pl, node) ==
    [pl EXCEPT !.rf = pool_release(pl.rf, node),
               !.er = pl.er \cup DoubleRelease(pl.rf, node, "rx_double_release")]

\* ull_sync_release(sync): mem_release(sync, &sync_free)
ull_sync_release(pl, h) ==
    [pl EXCEPT !.sf = mem_release(pl.sf, h),
               !.er = pl.er \cup DoubleRelease(Range(pl.sf), h,
                                               "sync_double_release")]

Pools == [lf |-> link_free, rf |-> rx_free, sf |-> sync_free, er |-> errs]

SetPools(pl) ==
    /\ link_free' = pl.lf
    /\ rx_free' = pl.rf
    /\ sync_free' = pl.sf
    /\ errs' = pl.er

\* ll_rx_put(link, rx): misuse of the link is observed, the node is queued
PutErrs(link) ==
    (IF link \in link_free THEN {"link_put_after_release"} ELSE {})
    \cup (IF \E i \in DOMAIN rx_queue : rx_queue[i].link = link
          THEN {"link_put_twice"} ELSE {})

(***************************************************************************)
(* ll_sync_create                                                          *)
(***************************************************************************)
\* faulty variant of create_unwind: the failure of sync_acquire forgets the
\* lost link
create_unwind_leak(pl, stage, link_sync_estab, link_sync_lost, node_rx) ==
    LET p1 == IF stage >= 4 THEN ll_rx_release(pl, node_rx) ELSE pl
        p2 == IF stage = 3 THEN ll_rx_link_release(p1, link_sync_lost) ELSE p1
    IN  IF stage >= 2 THEN ll_rx_link_release(p2, link_sync_estab) ELSE p2

\* lines 107-124: what the failure of acquisition number stage releases, in
\* the order of the code
create_unwind(pl, stage, link_sync_estab, link_sync_lost, node_rx) ==
    LET p1 == IF stage >= 4 THEN ll_rx_release(pl, node_rx) ELSE pl
        p2 == IF stage >= 3 THEN ll_rx_link_release(p1, link_sync_lost) ELSE p1
    IN  IF stage >= 2 THEN ll_rx_link_release(p2, link_sync_estab) ELSE p2

\* the result of a failed ll_sync_create
create_failed(stage, pl) ==
    [stage |-> stage, pl |-> pl, l_estab |-> NO_LINK, l_lost |-> NO_LINK,
     node |-> NO_RX, sync |-> NULL]

\* lines 99-126: the four acquisitions, each failure releasing what was
\* acquired before it.  Result: [stage, pl, l_estab, l_lost, node, sync];
\* stage 0 is success, 1..4 the acquisition that failed.
create_acquire(pl0) ==
    IF pl0.lf = {}
    THEN create_failed(1, create_unwind(pl0, 1, NO_LINK, NO_LINK, NO_RX))
    ELSE
    LET link_sync_estab == pool_acquire(pl0.lf)
        pl1 == [pl0 EXCEPT !.lf = pool_rest(pl0.lf)]
    IN  IF pl1.lf = {}
        THEN create_failed(2, create_unwind(pl1, 2, link_sync_estab, NO_LINK,
                                            NO_RX))
        ELSE
        LET link_sync_lost == pool_acquire(pl1.lf)
            pl2 == [pl1 EXCEPT !.lf = pool_rest(pl1.lf)]
        IN  IF pl2.rf = {}
            THEN create_failed(3, create_unwind(pl2, 3, link_sync_estab,
                                                link_sync_lost, NO_RX))
            ELSE
            LET node_rx == pool_acquire(pl2.rf)
                pl3 == [pl2 EXCEPT !.rf = pool_rest(pl2.rf)]
            IN  IF pl3.sf = <<>>
                THEN create_failed(4, create_unwind(pl3, 4, link_sync_estab,
                                                    link_sync_lost, node_rx))
                ELSE [stage |-> 0,
                      pl |-> [pl3 EXCEPT !.sf = Tail(pl3.sf)],
                      l_estab |-> link_sync_estab, l_lost |-> link_sync_lost,
                      node |-> node_rx, sync |-> Head(pl3.sf)]

\* faulty variant of create_init: the reporting flag is taken from bit 0
create_init_bit0(s, options, skip, sync_timeout, link_sync_lost) ==
    [s EXCEPT !.skip = skip,
              !.timeout = sync_timeout,
              !.timeout_reload = 0,
              !.timeout_expire = 0,
              !.skip_prepare = 0,
              !.skip_event = 0,
              !.window_widening_prepare_us = 0,
              !.window_widening_event_us = 0,
              !.is_rx_enabled = options % 2,
              !.lost_link = link_sync_lost]

\* lines 154-187: initialisation of the acquired context
create_init(s, options, skip, sync_timeout, link_sync_lost) ==
    [s EXCEPT !.skip = skip,
              !.timeout = sync_timeout,
              !.timeout_reload = 0,
              !.timeout_expire = 0,
              !.skip_prepare = 0,
              !.skip_event = 0,
              !.window_widening_prepare_us = 0,
              !.window_widening_event_us = 0,
              !.is_rx_enabled = ((options \div 2) % 2) * 2,
              !.lost_link = link_sync_lost]

\* faulty variant of create_conflict: the pending request is not looked at
create_conflict_unchecked == FALSE

\* lines 87-97: a sync is already pending on an active scan set
create_conflict ==
    \/ per_scan[SCAN_HANDLE_1M].sync # NULL
    \/ (phy_coded /\ per_scan[SCAN_HANDLE_PHY_CODED].sync # NULL)

ll_sync_create(options, skip, sync_timeout) ==
    /\ ThreadIdle /\ ThreadRuns /\ cancel_rx = NULL
    /\ IF create_conflict
       THEN /\ api' = Returned("create", NULL, "CMD_DISALLOWED", 0)
            /\ UNCHANGED <<per_scan, ll_sync_pool, sync_free, link_free,
                           rx_free, rx_link, errs, ull_ref, obs>>
       ELSE LET a == create_acquire(Pools)
            IN  IF a.stage # 0
                THEN /\ api' = Returned("create", NULL,
                                        "MEM_CAPACITY_EXCEEDED", a.stage)
                     /\ SetPools(a.pl)
                     /\ UNCHANGED <<per_scan, ll_sync_pool, rx_link, ull_ref,
                                    obs>>
                ELSE /\ api' = Returned("create", a.sync, "SUCCESS", 0)
                     /\ SetPools(a.pl)
                     /\ rx_link' = [rx_link EXCEPT ![a.node] = a.l_estab]
                     /\ ll_sync_pool' =
                            [ll_sync_pool EXCEPT ![a.sync] =
                                create_init(@, options, skip, sync_timeout,
                                            a.l_lost)]
                     /\ ull_ref' = [ull_ref EXCEPT ![a.sync] = 0]
                     /\ per_scan' =
                            [s \in ScanHandles |->
                                IF s = SCAN_HANDLE_1M \/ phy_coded
                                THEN [sync |-> a.sync, node_rx_estab |-> a.node]
                                ELSE per_scan[s]]
                     /\ obs' = [obs EXCEPT ![a.sync] =
                                    [ObsZero EXCEPT !.lost = "armed"]]
    /\ UNCHANGED <<phy_coded, rx_queue, cancel_rx, ticker_node, ticker_ops,
                   mfy_sync_lost, disable_mark, pc, tl, fatal>>

(***************************************************************************)
(* ll_sync_create_cancel: the thread, one step per shared access           *)
(***************************************************************************)
\* lines 208-218: a sync must be pending on every active scan set
cancel_enter ==
    /\ ThreadIdle /\ ThreadRuns /\ cancel_rx = NULL
    /\ IF \/ per_scan[SCAN_HANDLE_1M].sync = NULL
          \/ (phy_coded /\ per_scan[SCAN_HANDLE_PHY_CODED].sync = NULL)
       THEN /\ api' = Returned("cancel", NULL, "CMD_DISALLOWED", 0)
            /\ UNCHANGED pc
       ELSE /\ pc' = "cc228"
            /\ UNCHANGED api
    /\ UNCHANGED <<phy_coded, per_scan, ll_sync_pool, sync_free, link_free,
                   rx_free, rx_link, rx_queue, cancel_rx, ticker_node,
                   ticker_ops, ull_ref, mfy_sync_lost, disable_mark, tl,
                   fatal, errs, obs>>

\* line 228: sync = scan->per_scan.sync
cancel_read_sync ==
    /\ pc = "cc228" /\ ThreadRuns
    /\ tl' = [tl EXCEPT !.sync = per_scan[SCAN_HANDLE_1M].sync]
    /\ pc' = "cc229"
    /\ UNCHANGED <<phy_coded, per_scan, ll_sync_pool, sync_free, link_free,
                   rx_free, rx_link, rx_queue, cancel_rx, ticker_node,
                   ticker_ops, ull_ref, mfy_sync_lost, disable_mark, api,
                   fatal, errs, obs>>

\* line 229: scan->per_scan.sync = NULL
cancel_clear_1m ==
    /\ pc = "cc229" /\ ThreadRuns
    /\ per_scan' = [per_scan EXCEPT ![SCAN_HANDLE_1M].sync = NULL]
    /\ pc' = IF phy_coded THEN "cc231" ELSE "cc234"
    /\ UNCHANGED <<phy_coded, ll_sync_pool, sync_free, link_free, rx_free,
                   rx_link, rx_queue, cancel_rx, ticker_node, ticker_ops,
                   ull_ref, mfy_sync_lost, disable_mark, tl, api, fatal,
                   errs, obs>>

\* line 231: scan_coded->per_scan.sync = NULL
cancel_clear_coded ==
    /\ pc = "cc231" /\ ThreadRuns
    /\ per_scan' = [per_scan EXCEPT ![SCAN_HANDLE_PHY_CODED].sync = NULL]
    /\ pc' = "cc234"
    /\ UNCHANGED <<phy_coded, ll_sync_pool, sync_free, link_free, rx_free,
                   rx_link, rx_queue, cancel_rx, ticker_node, ticker_ops,
                   ull_ref, mfy_sync_lost, disable_mark, tl, api, fatal,
                   errs, obs>>

\* faulty variant of cancel_refused: timeout_reload is not read
cancel_refused_unread(sync) == sync = NULL

\* line 234, after cpu_dmb(): the cancellation is refused when the sync
\* was established meanwhile
cancel_refused(sync) ==
    sync = NULL \/ ll_sync_pool[sync].timeout_reload # 0

\* faulty variant of cancel_notification: node_rx_lost keeps the kind of the
\* notification it was allocated for
cancel_notification_lost_kind(sync) ==
    [type |-> "SYNC_LOST", handle |-> 65535,
     status |-> "OP_CANCELLED_BY_HOST", param |-> sync]

\* lines 246-259: the notification built in node_rx_lost and returned in *rx
cancel_notification(sync) ==
    [type |-> "SYNC", handle |-> 65535, status |-> "OP_CANCELLED_BY_HOST",
     param |-> sync]

\* lines 233-263
cancel_finish ==
    /\ pc = "cc234" /\ ThreadRuns
    /\ pc' = "idle"
    /\ IF cancel_refused(tl.sync)
       THEN /\ api' = Returned("cancel", tl.sync, "CMD_DISALLOWED", 1)
            /\ tl' = [tl EXCEPT !.sync = NULL]
            /\ UNCHANGED <<link_free, rx_free, sync_free, errs, cancel_rx,
                           obs>>
       ELSE LET sync == tl.sync
                node_rx == per_scan[SCAN_HANDLE_1M].node_rx_estab
                link_sync_estab == rx_link[node_rx]
                link_sync_lost == ll_sync_pool[sync].lost_link
                pl == ll_rx_release(
                          ll_rx_link_release(
                              ll_rx_link_release(Pools, link_sync_lost),
                              link_sync_estab),
                          node_rx)
            IN  /\ SetPools([pl EXCEPT !.er =
                       @ \cup (IF obs[sync].lost # "armed"
                               THEN {"lost_consumed_twice"} ELSE {})])
                /\ cancel_rx' = sync
                /\ obs' = [obs EXCEPT ![sync].lost = "consumed"]
                /\ api' = Returned("cancel", sync, "SUCCESS", 0)
                /\ tl' = [tl EXCEPT !.sync = NULL,
                                    !.rx = cancel_notification(sync)]
    /\ UNCHANGED <<phy_coded, per_scan, ll_sync_pool, rx_link, rx_queue,
                   ticker_node, ticker_ops, ull_ref, mfy_sync_lost,
                   disable_mark, fatal>>

(***************************************************************************)
(* Arithmetic of the C code                                                *)
(***************************************************************************)
RECURSIVE BitAnd(_, _)
\* a & b on naturals
BitAnd(a, b) ==
    IF a = 0 \/ b = 0 THEN 0
    ELSE ((a % 2) * (b % 2)) + 2 * BitAnd(a \div 2, b \div 2)

\* a & ~mask on a byte
ByteAndNot(a, mask) == a - BitAnd(a, mask)

\* RADIO_SYNC_EVENTS(x, y): (uint16_t)(((x) + (y) - 1) / (y)).  The operands
\* are 32 bits wide; with a 16-bit timeout and interval x + y - 1 stays below
\* 2^30, so only the cast to uint16_t can truncate
RADIO_SYNC_EVENTS(x, y) == (((x + y) - 1) \div y) % UINT16

\* lines 405-414: the channel map of the sync info with the SCA bits cleared
setup_chan_map(sca_chm) ==
    [i \in 1 .. PDU_CHANNEL_MAP_SIZE |->
        IF i = PDU_SYNC_INFO_SCA_CHM_SCA_BYTE_OFFSET + 1
        THEN ByteAndNot(sca_chm[i], PDU_SYNC_INFO_SCA_CHM_SCA_BIT_MASK)
        ELSE sca_chm[i]]

\* lines 429-431: the SCA value of the sync info
setup_sca(sca_chm) ==
    BitAnd(sca_chm[PDU_SYNC_INFO_SCA_CHM_SCA_BYTE_OFFSET + 1],
           PDU_SYNC_INFO_SCA_CHM_SCA_BIT_MASK)
        \div (2 ^ PDU_SYNC_INFO_SCA_CHM_SCA_BIT_POS)

\* lines 433-437
setup_timeout_reload(timeout, interval) ==
    RADIO_SYNC_EVENTS(timeout * 10 * 1000, interval * CONN_INT_UNIT_US)

\* the outcomes of lines 434-437.  With interval 0 the divisor interval_us
\* is 0: the division is undefined, the build either traps (DIV_TRAP) or
\* stores some 16-bit value
DIV_TRAP == 0 - 2
setup_timeout_reload_outcomes(timeout, interval) ==
    IF interval * CONN_INT_UNIT_US = 0
    THEN {DIV_TRAP, 0, 1, UINT16 - 1}
    ELSE {setup_timeout_reload(timeout, interval)}

(***************************************************************************)
(* Scheduler (ticker) interface                                            *)
(***************************************************************************)
TickerOp(op, h, user, arg) == [op |-> op, h |-> h, user |-> user, arg |-> arg]

\* an operation on entry h is issued and not yet completed
OpPending(h) == \E i \in DOMAIN ticker_ops : ticker_ops[i].h = h

(***************************************************************************)
(* ull_sync_setup (ULL_HIGH)                                               *)
(***************************************************************************)
\* lines 405-414: the context with the descriptor's map parsed into the
\* entry at chm_first
setup_parse(s, si) ==
    LET chm_last == s.chm_first
        data_chan_map == setup_chan_map(si.sca_chm)
    IN  [s EXCEPT !.chm_last = chm_last,
                  !.chm[chm_last] =
                      [data_chan_map |-> data_chan_map,
                       data_chan_count |-> util_ones_count_get(data_chan_map)]]

\* faulty variant of setup_ignored: a single channel is accepted
setup_ignored_below_one(s) == s.chm[s.chm_last].data_chan_count < 1

\* line 415
setup_ignored(s) == s.chm[s.chm_last].data_chan_count < 2

\* lines 467-479: the establishment notification
setup_notification(scan, sync_handle, si) ==
    [type |-> "SYNC", handle |-> sync_handle, status |-> "SUCCESS",
     interval |-> si.interval, sca |-> setup_sca(si.sca_chm),
     link |-> rx_link[per_scan[scan].node_rx_estab],
     node |-> per_scan[scan].node_rx_estab]

\* faulty variant of setup_notify_then_start: the scheduler entry is started
\* before the notification is put on the queue
setup_start_then_notify(scan, sync_handle, si) ==
    [queue |-> Append(rx_queue, setup_notification(scan, sync_handle, si)),
     ops |-> Append(ticker_ops,
                    TickerOp("start", sync_handle, "ULL_HIGH", <<>>)),
     after |-> \E i \in DOMAIN rx_queue :
                  rx_queue[i].type = "SYNC" /\ rx_queue[i].handle = sync_handle]

\* lines 467-528: [queue, ops, after]: the notification is put on the rx
\* queue, then the scheduler entry is started; after tells whether the
\* notification of this handle was on the queue when the start was issued
setup_notify_then_start(scan, sync_handle, si) ==
    LET q == Append(rx_queue, setup_notification(scan, sync_handle, si))
    IN  [queue |-> q,
         ops |-> Append(ticker_ops,
                        TickerOp("start", sync_handle, "ULL_HIGH", <<>>)),
         after |-> \E i \in DOMAIN q :
                      q[i].type = "SYNC" /\ q[i].handle = sync_handle]

ull_sync_setup(scan, si) ==
    /\ fatal = "none"
    /\ scan = SCAN_HANDLE_1M \/ phy_coded
    /\ per_scan[scan].sync # NULL
    /\ LET sync == per_scan[scan].sync
           s1 == setup_parse(ll_sync_pool[sync], si)
       IN  IF setup_ignored(s1)
           THEN /\ ll_sync_pool' = [ll_sync_pool EXCEPT ![sync] = s1]
                /\ UNCHANGED <<per_scan, rx_queue, ticker_ops, errs, obs,
                               fatal>>
           ELSE \E r \in setup_timeout_reload_outcomes(s1.timeout,
                                                       si.interval) :
                IF r = DIV_TRAP
                THEN /\ fatal' = "divide_by_zero"
                     /\ ll_sync_pool' = [ll_sync_pool EXCEPT ![sync] = s1]
                     /\ UNCHANGED <<per_scan, rx_queue, ticker_ops, errs,
                                    obs>>
                ELSE
                LET n == setup_notify_then_start(scan, sync, si)
                IN  /\ ll_sync_pool' = [ll_sync_pool EXCEPT ![sync] =
                           [s1 EXCEPT !.timeout_reload = r]]
                    /\ fatal' = fatal
                    /\ per_scan' =
                           [x \in ScanHandles |->
                               IF x = scan \/ phy_coded
                               THEN [per_scan[x] EXCEPT !.sync = NULL]
                               ELSE per_scan[x]]
                    /\ rx_queue' = n.queue
                    /\ ticker_ops' = n.ops
                    /\ errs' = errs \cup
                           PutErrs(rx_link[per_scan[scan].node_rx_estab])
                    /\ obs' = [obs EXCEPT
                           ![sync].estab_put = @ + 1,
                           ![sync].start_after_put = n.after]
    /\ UNCHANGED <<phy_coded, sync_free, link_free, rx_free, rx_link,
                   cancel_rx, ticker_node, ull_ref, mfy_sync_lost,
                   disable_mark, pc, tl, api>>

(***************************************************************************)
(* ticker_cb (ULL_HIGH): a scheduled listen event is prepared              *)
(***************************************************************************)
\* lines 778-812; ull_ref_inc.  The scheduler completes the operations
\* pending on an entry before the entry expires again, and events of one
\* entry do not overlap.
ticker_cb(h) ==
    /\ fatal = "none"
    /\ ticker_node[h]
    /\ ~OpPending(h)
    /\ ull_ref[h] = 0
    /\ ull_ref' = [ull_ref EXCEPT ![h] = @ + 1]
    /\ UNCHANGED <<phy_coded, per_scan, ll_sync_pool, sync_free, link_free,
                   rx_free, rx_link, rx_queue, cancel_rx, ticker_node,
                   ticker_ops, mfy_sync_lost, disable_mark, pc, tl, api,
                   fatal, errs, obs>>

(***************************************************************************)
(* ull_sync_done (ULL_HIGH): supervision of one completed event            *)
(***************************************************************************)
\* faulty variant of timeout_alive: the comparison is not strict
timeout_alive_or_equal(timeout_expire, elapsed_event) ==
    timeout_expire >= elapsed_event

\* line 580: the supervision countdown outlasts the elapsed events
timeout_alive(timeout_expire, elapsed_event) == timeout_expire > elapsed_event

\* faulty variant of done_countdown: a valid reception leaves the countdown
done_countdown_kept(s, crc_valid) ==
    IF s.timeout_expire = 0
    THEN [s EXCEPT !.timeout_expire = s.timeout_reload]
    ELSE s

\* lines 563-575: a valid reception clears the supervision countdown, an
\* event without one arms it when it is not running
done_countdown(s, crc_valid) ==
    IF crc_valid # 0
    THEN [s EXCEPT !.timeout_expire = 0]
    ELSE IF s.timeout_expire = 0
         THEN [s EXCEPT !.timeout_expire = s.timeout_reload]
         ELSE s

\* lines 546-600 on the context s.  Result: the context after the event,
\* whether loss was declared (timeout_cleanup), and the arguments of the
\* scheduler update
sync_done(s, trx_cnt, crc_valid, drift_plus, drift_minus) ==
    LET skip_event == s.skip_event
        elapsed_event == (skip_event + 1) % UINT16
        ticks_drift_plus == IF trx_cnt # 0 THEN drift_plus ELSE 0
        ticks_drift_minus == IF trx_cnt # 0 THEN drift_minus ELSE 0
        \* lines 554-561
        s1 == IF trx_cnt # 0 THEN [s EXCEPT !.skip_event = s.skip] ELSE s
        \* lines 563-575
        s2 == done_countdown(s1, crc_valid)
        \* lines 577-594
        alive == timeout_alive(s2.timeout_expire, elapsed_event)
        lost == s2.timeout_expire # 0 /\ ~alive
        s3 == IF s2.timeout_expire # 0 /\ alive
              THEN [s2 EXCEPT !.timeout_expire = @ - elapsed_event,
                              !.skip_event = 0]
              ELSE s2
        force == IF s2.timeout_expire # 0 /\ alive /\ skip_event # 0
                 THEN 1 ELSE 0
        \* lines 596-600
        lazy == IF force # 0 \/ skip_event # s3.skip_event
                THEN (s3.skip_event + 1) % UINT16 ELSE 0
    IN  [sync |-> s3, lost |-> lost,
         ticks_drift_plus |-> ticks_drift_plus,
         ticks_drift_minus |-> ticks_drift_minus,
         lazy |-> lazy, force |-> force,
         \* line 603
         update |-> ~lost /\ (ticks_drift_plus # 0 \/ ticks_drift_minus # 0
                              \/ lazy # 0 \/ force # 0)]

\* lines 765-776: timeout_cleanup issues the scheduler stop
timeout_cleanup(h) == Append(ticker_ops, TickerOp("stop", h, "ULL_HIGH", <<>>))

\* lines 602-624: the scheduler update
done_update(h, d) ==
    Append(ticker_ops,
           TickerOp("update", h, "ULL_HIGH",
                    <<d.ticks_drift_plus, d.ticks_drift_minus, d.lazy,
                      d.force>>))

ull_sync_done(h, trx_cnt, crc_valid, drift_plus, drift_minus) ==
    /\ fatal = "none"
    /\ ull_ref[h] > 0
    /\ LET d == sync_done(ll_sync_pool[h], trx_cnt, crc_valid, drift_plus,
                          drift_minus)
           miss == IF crc_valid # 0 THEN 0 ELSE obs[h].miss + 1
       IN  /\ ll_sync_pool' = [ll_sync_pool EXCEPT ![h] = d.sync]
           /\ ticker_ops' = IF d.lost THEN timeout_cleanup(h)
                            ELSE IF d.update THEN done_update(h, d)
                            ELSE ticker_ops
           /\ obs' = [obs EXCEPT
                  ![h].miss = miss,
                  ![h].loss_at = IF d.lost THEN miss ELSE @,
                  ![h].stops = IF d.lost THEN @ + 1 ELSE @]
    \* the event's reference is dropped once its done handler has run
    /\ ull_ref' = [ull_ref EXCEPT ![h] = @ - 1]
    /\ UNCHANGED <<phy_coded, per_scan, sync_free, link_free, rx_free,
                   rx_link, rx_queue, cancel_rx, ticker_node, mfy_sync_lost,
                   disable_mark, pc, tl, api, fatal, errs>>

(***************************************************************************)
(* The scheduler job (ULL_LOW) and the operation callbacks                 *)
(***************************************************************************)
\* status of an operation on the entry of handle h
op_status(op) ==
    IF op.op = "start"
    THEN (IF ticker_node[op.h] THEN "FAILURE" ELSE "SUCCESS")
    ELSE (IF ticker_node[op.h] THEN "SUCCESS" ELSE "FAILURE")

\* line 818: ticker_op_cb
ticker_op_cb(status) ==
    IF status = "SUCCESS" THEN "none" ELSE "ticker_op_cb"

\* faulty variant of ticker_update_sync_op_cb: only success is accepted
ticker_update_sync_op_cb_strict(status, param) ==
    IF status = "SUCCESS" THEN "none" ELSE "ticker_update_sync_op_cb"

\* lines 823-824: ticker_update_sync_op_cb
ticker_update_sync_op_cb(status, param) ==
    IF status = "SUCCESS" \/ param = disable_mark
    THEN "none" ELSE "ticker_update_sync_op_cb"

\* faulty variant of ticker_stop_op_cb: the status is not asserted
ticker_stop_op_cb_unasserted(status) == "none"

\* line 833: ticker_stop_op_cb
ticker_stop_op_cb(status) ==
    IF status = "SUCCESS" THEN "none" ELSE "ticker_stop_op_cb"

\* ull_ticker_status_give: the status of the thread's stop is stored
ull_ticker_status_give(status) == [tl EXCEPT !.ret_cb = status]

\* lines 859-864: the status is stored in ret_cb and sem_ticker_cb is given
ticker_update_op_status_give(status) ==
    [tl EXCEPT !.ret_cb = status, !.sem = @ + 1]

ticker_job ==
    /\ fatal = "none"
    /\ mfy_sync_lost = NULL
    /\ ticker_ops # <<>>
    /\ LET op == Head(ticker_ops)
           status == op_status(op)
       IN  /\ ticker_ops' = Tail(ticker_ops)
           /\ ticker_node' =
                  IF status = "SUCCESS"
                  THEN [ticker_node EXCEPT ![op.h] = (op.op # "stop")]
                  ELSE ticker_node
           /\ fatal' =
                  IF op.op = "start" THEN ticker_op_cb(status)
                  ELSE IF op.op = "update"
                       THEN (IF op.user = "ULL_HIGH"
                             THEN ticker_update_sync_op_cb(status, op.h)
                             ELSE "none")
                  ELSE IF op.user = "ULL_HIGH" THEN ticker_stop_op_cb(status)
                  ELSE "none"
           \* lines 835-839: the sync_lost mayfly is enqueued
           /\ mfy_sync_lost' =
                  IF op.op = "stop" /\ op.user = "ULL_HIGH"
                     /\ ticker_stop_op_cb(status) = "none"
                  THEN op.h ELSE mfy_sync_lost
           \* ull_ticker_status_give for the thread's stop
           /\ tl' = IF op.op = "stop" /\ op.user = "THREAD"
                    THEN ull_ticker_status_give(status)
                    ELSE IF op.op = "update" /\ op.user = "THREAD"
                         THEN ticker_update_op_status_give(status)
                         ELSE tl
    /\ UNCHANGED <<phy_coded, per_scan, ll_sync_pool, sync_free, link_free,
                   rx_free, rx_link, rx_queue, cancel_rx, ull_ref,
                   disable_mark, pc, api, errs, obs>>

(***************************************************************************)
(* sync_lost (mayfly, ULL_HIGH)                                            *)
(***************************************************************************)
\* lines 848-851: the sync-lost notification built in node_rx_lost
lost_notification(h) ==
    [type |-> "SYNC_LOST", handle |-> h, status |-> "NONE", interval |-> 0,
     sca |-> 0, link |-> ll_sync_pool[h].lost_link, node |-> NO_RX,
     param |-> h]

sync_lost ==
    /\ fatal = "none"
    /\ mfy_sync_lost # NULL
    /\ LET h == mfy_sync_lost
       IN  /\ rx_queue' = Append(rx_queue, lost_notification(h))
           /\ errs' = errs \cup PutErrs(ll_sync_pool[h].lost_link)
                  \cup (IF obs[h].lost # "armed"
                        THEN {"lost_consumed_twice"} ELSE {})
           /\ obs' = [obs EXCEPT ![h].lost = "consumed",
                                 ![h].lost_put = @ + 1]
    /\ mfy_sync_lost' = NULL
    /\ UNCHANGED <<phy_coded, per_scan, ll_sync_pool, sync_free, link_free,
                   rx_free, rx_link, cancel_rx, ticker_node, ticker_ops,
                   ull_ref, disable_mark, pc, tl, api, fatal>>

(***************************************************************************)
(* ll_sync_terminate: the thread                                           *)
(***************************************************************************)
\* lines 330-337
ull_sync_set_get(handle) == IF handle >= SyncMax THEN NULL ELSE handle

\* faulty variant of ull_sync_is_enabled_get: timeout_reload is not looked at
ull_sync_is_enabled_get_any(handle) == ull_sync_set_get(handle)

\* lines 339-349
ull_sync_is_enabled_get(handle) ==
    LET sync == ull_sync_set_get(handle)
    IN  IF sync = NULL \/ ll_sync_pool[sync].timeout_reload = 0
        THEN NULL ELSE sync

\* lines 272-278: lookup, then ull_ticker_stop_with_mark marks the context
\* and issues the scheduler stop
ll_sync_terminate(handle) ==
    /\ ThreadIdle /\ ThreadRuns /\ cancel_rx = NULL
    /\ LET sync == ull_sync_is_enabled_get(handle)
       IN  IF sync = NULL
           THEN /\ api' = Returned("terminate", handle,
                                   "UNKNOWN_ADV_IDENTIFIER", 0)
                /\ UNCHANGED <<pc, tl, disable_mark, ticker_ops>>
           ELSE /\ disable_mark' = sync
                /\ ticker_ops' = Append(ticker_ops,
                                    TickerOp("stop", sync, "THREAD", <<>>))
                /\ tl' = [tl EXCEPT !.handle = handle, !.ret_cb = "BUSY"]
                /\ pc' = "t_wait"
                /\ UNCHANGED api
    /\ UNCHANGED <<phy_coded, per_scan, ll_sync_pool, sync_free, link_free,
                   rx_free, rx_link, rx_queue, cancel_rx, ticker_node,
                   ull_ref, mfy_sync_lost, fatal, errs, obs>>

\* line 279: the error ull_ticker_stop_with_mark returns for a stop that
\* completed with ret_cb
stop_with_mark_err(ret_cb) == IF ret_cb = "SUCCESS" THEN "0" ELSE "EALREADY"

\* faulty variant of terminate_rejected: the error is dropped
terminate_rejected_never(err) == FALSE

\* lines 279-282
terminate_rejected(err) == err # "0"

\* ull_ticker_stop_with_mark: the stop has completed; a failed stop unmarks
\* and ll_sync_terminate returns (lines 279-282)
terminate_stopped ==
    /\ pc = "t_wait" /\ ThreadRuns
    /\ tl.ret_cb # "BUSY"
    /\ LET err == stop_with_mark_err(tl.ret_cb)
       IN  /\ fatal' = IF err \in {"0", "EALREADY"} THEN "none"
                       ELSE "ll_sync_terminate"
           /\ IF terminate_rejected(err)
              THEN /\ disable_mark' = NULL
                   /\ api' = Returned("terminate", tl.handle,
                                      "CMD_DISALLOWED", 0)
                   /\ pc' = "idle"
              ELSE /\ pc' = "t_disable"
                   /\ UNCHANGED <<disable_mark, api>>
    /\ UNCHANGED <<phy_coded, per_scan, ll_sync_pool, sync_free, link_free,
                   rx_free, rx_link, rx_queue, cancel_rx, ticker_node,
                   ticker_ops, ull_ref, mfy_sync_lost, tl, errs, obs>>

\* ull_ticker_stop_with_mark: ull_disable waits for the events in flight,
\* then the context is unmarked
terminate_disabled ==
    /\ pc = "t_disable" /\ ThreadRuns
    /\ ull_ref[tl.handle] = 0
    /\ disable_mark' = NULL
    /\ pc' = "t_release"
    /\ UNCHANGED <<phy_coded, per_scan, ll_sync_pool, sync_free, link_free,
                   rx_free, rx_link, rx_queue, cancel_rx, ticker_node,
                   ticker_ops, ull_ref, mfy_sync_lost, tl, api, fatal, errs,
                   obs>>

\* lines 284-289
terminate_release ==
    /\ pc = "t_release" /\ ThreadRuns
    /\ LET sync == tl.handle
           link_sync_lost == ll_sync_pool[sync].lost_link
           pl == ull_sync_release(ll_rx_link_release(Pools, link_sync_lost),
                                  sync)
       IN  /\ SetPools([pl EXCEPT !.er =
                  @ \cup (IF obs[sync].lost # "armed"
                          THEN {"lost_consumed_twice"} ELSE {})])
           /\ obs' = [obs EXCEPT ![sync].lost = "consumed"]
           /\ api' = Returned("terminate", sync, "SUCCESS", 0)
    /\ pc' = "idle"
    /\ UNCHANGED <<phy_coded, per_scan, ll_sync_pool, rx_free, rx_link,
                   rx_queue, cancel_rx, ticker_node, ticker_ops, ull_ref,
                   mfy_sync_lost, disable_mark, tl, fatal>>

(***************************************************************************)
(* ull_sync_slot_update: the thread                                        *)
(***************************************************************************)
\* lines 711-722: ticker_update is called for the entry of an established
\* context.  The scheduler either has no room for the request (it is not
\* enqueued and its callback never runs) or enqueues it
ull_sync_slot_update(h) ==
    /\ ThreadIdle /\ ThreadRuns /\ cancel_rx = NULL
    /\ Allocated(h) /\ ll_sync_pool[h].timeout_reload # 0
    /\ \E enqueued \in BOOLEAN :
          /\ ticker_ops' = IF enqueued
                           THEN Append(ticker_ops,
                                       TickerOp("update", h, "THREAD", <<>>))
                           ELSE ticker_ops
          /\ tl' = [tl EXCEPT !.handle = h, !.ret_cb = "BUSY",
                              !.ret = IF enqueued THEN "BUSY" ELSE "FAILURE"]
          /\ pc' = IF enqueued THEN "su_ret" ELSE "su_722"
    /\ UNCHANGED <<phy_coded, per_scan, ll_sync_pool, sync_free, link_free,
                   rx_free, rx_link, rx_queue, cancel_rx, ticker_node,
                   ull_ref, mfy_sync_lost, disable_mark, api, fatal, errs,
                   obs>>

\* line 712: ticker_update returns the status of the request: BUSY while the
\* scheduler job has not run yet (the job is deferred), else the status the
\* job completed it with
slot_update_ticker_returned ==
    /\ pc = "su_ret" /\ fatal = "none"
    /\ tl' = [tl EXCEPT !.ret = tl.ret_cb]
    /\ pc' = "su_722"
    /\ UNCHANGED <<phy_coded, per_scan, ll_sync_pool, sync_free, link_free,
                   rx_free, rx_link, rx_queue, cancel_rx, ticker_node,
                   ticker_ops, ull_ref, mfy_sync_lost, disable_mark, api,
                   fatal, errs, obs>>

\* lines 723-741: whether the call takes sem_ticker_cb
slot_update_takes(ret, ret_cb) ==
    IF ret = "BUSY" \/ ret = "SUCCESS" THEN TRUE ELSE ret_cb # "BUSY"

\* lines 723-741: the result, from ticker_update's return and the status the
\* callback stored
slot_update_result(ret, ret_cb) ==
    IF ret = "BUSY" \/ ret = "SUCCESS"
    THEN (IF ret_cb = "FAILURE" THEN "EFAULT" ELSE "0")
    ELSE (IF ret_cb = "FAILURE" THEN "ENOENT" ELSE "ENOMEM")

\* lines 723-742: k_sem_take blocks until sem_ticker_cb is given
slot_update_finish ==
    /\ pc = "su_722" /\ fatal = "none"
    /\ IF slot_update_takes(tl.ret, tl.ret_cb)
       THEN /\ tl.sem > 0
            /\ tl' = [tl EXCEPT !.sem = @ - 1]
       ELSE tl' = tl
    /\ api' = Returned("slot_update", tl.handle,
                       slot_update_result(tl.ret, tl'.ret_cb), 0)
    /\ pc' = "idle"
    /\ UNCHANGED <<phy_coded, per_scan, ll_sync_pool, sync_free, link_free,
                   rx_free, rx_link, rx_queue, cancel_rx, ticker_node,
                   ticker_ops, ull_ref, mfy_sync_lost, disable_mark, fatal,
                   errs, obs>>

(***************************************************************************)
(* The host side of the notification queue                                 *)
(***************************************************************************)
\* the head of the rx queue is delivered and released: its link, the buffer
\* of an establishment notification, the context of a sync-lost one
ll_rx_dequeue ==
    /\ ThreadRuns /\ pc \in {"idle", "t_disable"}
    /\ rx_queue # <<>>
    /\ LET e == Head(rx_queue)
           pl1 == ll_rx_link_release(Pools, e.link)
           pl2 == IF e.type = "SYNC" THEN ll_rx_release(pl1, e.node)
                  ELSE ull_sync_release(pl1, e.handle)
       IN  SetPools(pl2)
    /\ rx_queue' = Tail(rx_queue)
    /\ UNCHANGED <<phy_coded, per_scan, ll_sync_pool, rx_link, cancel_rx,
                   ticker_node, ticker_ops, ull_ref, mfy_sync_lost,
                   disable_mark, pc, tl, api, fatal, obs>>

\* the notification returned by ll_sync_create_cancel is released, and with
\* it its context
cancel_rx_release ==
    /\ ThreadIdle /\ ThreadRuns
    /\ cancel_rx # NULL
    /\ SetPools(ull_sync_release(Pools, cancel_rx))
    /\ cancel_rx' = NULL
    /\ tl' = [tl EXCEPT !.rx = NoRx]
    /\ UNCHANGED <<phy_coded, per_scan, ll_sync_pool, rx_link, rx_queue,
                   ticker_node, ticker_ops, ull_ref, mfy_sync_lost,
                   disable_mark, pc, api, fatal, obs>>

(***************************************************************************)
(* ull_sync_chm_update (ULL_HIGH) and the consumer of the staged map       *)
(***************************************************************************)
RECURSIVE acad_find(_, _, _)
\* lines 646-663: the search for the Channel Map Update Indication in the
\* AD structures at acad[off..], acad_len octets left.  Result: [found, off,
\* ad_len], off being the 1-based index of the length octet of the record
acad_find(acad, off, acad_len) ==
    LET ad_len == acad[off]
    IN  IF ad_len # 0 /\ acad[off + 1] = BT_DATA_CHANNEL_MAP_UPDATE_IND
        THEN [found |-> TRUE, off |-> off, ad_len |-> ad_len]
        ELSE IF ad_len + 1 < acad_len
             THEN acad_find(acad, off + ad_len + 1, acad_len - (ad_len + 1))
             ELSE [found |-> FALSE, off |-> off, ad_len |-> ad_len + 1]

\* faulty variant of chm_stage_index: the entry in use is staged in
chm_stage_index_same(chm_last) == chm_last

\* line 671-674: the entry the update is staged in
chm_stage_index(chm_last) ==
    IF chm_last + 1 = DOUBLE_BUFFER_SIZE THEN 0 ELSE chm_last + 1

\* faulty variant of chm_in_progress: the cursors are not compared
chm_in_progress_unchecked(s) == FALSE

\* line 641: an update is staged and not yet activated
chm_in_progress(s) == s.chm_last # s.chm_first

\* lines 640-690 on the context s
chm_update(s, acad, acad_len) ==
    IF chm_in_progress(s) THEN s
    ELSE
    LET f == acad_find(acad, 1, acad_len)
    IN  IF ~f.found THEN s
        ELSE IF f.ad_len # CHM_UPD_IND_SIZE + 1 THEN s
        ELSE
        LET chm_last == chm_stage_index(s.chm_last)
            map == [i \in 1 .. PDU_CHANNEL_MAP_SIZE |-> acad[f.off + 1 + i]]
            count == util_ones_count_get(map)
            instant == acad[f.off + 2 + PDU_CHANNEL_MAP_SIZE]
                       + 256 * acad[f.off + 3 + PDU_CHANNEL_MAP_SIZE]
            s1 == [s EXCEPT !.chm[chm_last] =
                      [data_chan_map |-> map, data_chan_count |-> count]]
        IN  IF count < 2 THEN s1
            ELSE [s1 EXCEPT !.chm_instant = instant, !.chm_last = chm_last]

\* called for a packet received in an event of an established sync
ull_sync_chm_update(sync_handle, acad, acad_len) ==
    /\ fatal = "none"
    /\ ull_sync_set_get(sync_handle) # NULL
    /\ ll_sync_pool[sync_handle].timeout_reload # 0
    /\ ull_ref[sync_handle] > 0
    /\ ll_sync_pool' = [ll_sync_pool EXCEPT ![sync_handle] =
                            chm_update(@, acad, acad_len)]
    /\ UNCHANGED <<phy_coded, per_scan, sync_free, link_free, rx_free,
                   rx_link, rx_queue, cancel_rx, ticker_node, ticker_ops,
                   ull_ref, mfy_sync_lost, disable_mark, pc, tl, api, fatal,
                   errs, obs>>

\* the radio-prepare step switches to the staged map once the event counter
\* reaches the staged instant: the cursors are aligned
lll_chm_activate(h) ==
    /\ fatal = "none"
    /\ ull_ref[h] > 0
    /\ chm_in_progress(ll_sync_pool[h])
    /\ ll_sync_pool' = [ll_sync_pool EXCEPT ![h].chm_first =
                                          ll_sync_pool[h].chm_last]
    /\ UNCHANGED <<phy_coded, per_scan, sync_free, link_free, rx_free,
                   rx_link, rx_queue, cancel_rx, ticker_node, ticker_ops,
                   ull_ref, mfy_sync_lost, disable_mark, pc, tl, api, fatal,
                   errs, obs>>

(***************************************************************************)
(* Inputs and specifications                                               *)
(***************************************************************************)
\* sca_chm fields: no channel; one channel with SCA bits set; two channels
\* of which one in the byte that holds the SCA bits
ChmNone == <<0, 0, 0, 0, 0>>
ChmOneSca == <<1, 0, 0, 0, 224>>
ChmTwoSca == <<1, 0, 0, 0, 33>>
SyncInfo(m, i) == [sca_chm |-> m, interval |-> i]

\* lifecycle: create, cancel, setup, events, loss, terminate, host
SetupInputs == {SyncInfo(ChmOneSca, 4), SyncInfo(ChmTwoSca, 4)}

Create == \E options \in {0} : ll_sync_create(options, 0, 1)
Cancel == cancel_enter \/ cancel_read_sync \/ cancel_clear_1m
              \/ cancel_clear_coded \/ cancel_finish
Setup == \E scan \in ScanHandles, si \in SetupInputs : ull_sync_setup(scan, si)
Terminate ==
    \/ \E handle \in 0 .. SyncMax : ll_sync_terminate(handle)
    \/ terminate_stopped \/ terminate_disabled \/ terminate_release
Event == \E h \in Handles : ticker_cb(h)
Done ==
    \E h \in Handles, r \in {<<0, 0>>, <<1, 0>>, <<1, 1>>}, dp \in {0, 1} :
        ull_sync_done(h, r[1], r[2], dp, 0)
Host == ll_rx_dequeue \/ cancel_rx_release

Next ==
    \/ Create
    \/ Cancel
    \/ Setup
    \/ Terminate
    \/ Event
    \/ Done
    \/ ticker_job
    \/ sync_lost
    \/ Host

Spec == Init /\ [][Next]_vars

\* creation under every availability of links and buffers: the rest of the
\* controller holds some of them
InitAny == \E nl \in 0 .. MaxLinks, nr \in 0 .. MaxRx : InitPools(nl, nr)

NextCreate ==
    \/ Create
    \/ Cancel
    \/ Setup
    \/ Terminate
    \/ ticker_job
    \/ Host

SpecCreate == InitAny /\ [][NextCreate]_vars

\* supervision: skip 0, timeout_reload 1 .. 4, one context at a time (the
\* pools hold what one creation needs)
InitOne == InitPools(2, 1)

SupIntervals == {2, 3, 4, 8}
SupSetup ==
    \E scan \in ScanHandles, i \in SupIntervals :
        ull_sync_setup(scan, SyncInfo(ChmTwoSca, i))
SupDone ==
    \E h \in Handles, r \in {<<0, 0>>, <<1, 0>>, <<1, 1>>} :
        ull_sync_done(h, r[1], r[2], 0, 0)

NextSup ==
    \/ Create
    \/ SupSetup
    \/ Event
    \/ SupDone
    \/ ticker_job
    \/ sync_lost
    \/ ll_rx_dequeue

SpecSup == InitOne /\ [][NextSup]_vars

\* channel map: descriptors and update records of every shape
ChmTwo == <<3, 0, 0, 0, 0>>
ChmThree == <<0, 7, 0, 0, 0>>
ChmOne == <<0, 0, 16, 0, 0>>
ChmRecord(m, instant) == <<CHM_UPD_IND_SIZE + 1, BT_DATA_CHANNEL_MAP_UPDATE_IND>>
                             \o m \o <<instant % 256, instant \div 256>>
\* update records that are well formed, with the map and the instant they
\* carry (300 = 44 + 256 * 1 has both octets of the instant non-zero)
ChmWellFormed ==
    {[acad |-> ChmRecord(ChmTwo, 300), map |-> ChmTwo, instant |-> 300],
     [acad |-> ChmRecord(ChmThree, 5), map |-> ChmThree, instant |-> 5],
     [acad |-> ChmRecord(ChmOne, 9), map |-> ChmOne, instant |-> 9],
     \* after another AD structure
     [acad |-> <<2, 1, 6>> \o ChmRecord(ChmThree, 7), map |-> ChmThree,
      instant |-> 7]}
AcadInputs ==
    {w.acad : w \in ChmWellFormed}
    \cup {<<7, BT_DATA_CHANNEL_MAP_UPDATE_IND, 3, 0, 0, 0, 0, 1>>, \* wrong length
          <<2, 1, 6>>}                                             \* no record

\* descriptors with the map they carry once the SCA bits are cleared
ChmDescriptors ==
    {[si |-> SyncInfo(ChmNone, 4), map |-> ZeroMap],
     [si |-> SyncInfo(ChmOneSca, 4), map |-> <<1, 0, 0, 0, 0>>],
     [si |-> SyncInfo(ChmTwoSca, 4), map |-> <<1, 0, 0, 0, 1>>],
     [si |-> SyncInfo(ChmThree, 4), map |-> ChmThree]}
ChmSetupInputs == {d.si : d \in ChmDescriptors}
ChmSetup ==
    \E scan \in ScanHandles, si \in ChmSetupInputs : ull_sync_setup(scan, si)
ChmUpdate ==
    \E h \in Handles, acad \in AcadInputs :
        ull_sync_chm_update(h, acad, Len(acad))
ChmActivate == \E h \in Handles : lll_chm_activate(h)
ChmDone == \E h \in Handles : ull_sync_done(h, 1, 1, 0, 0)

NextChm ==
    \/ Create
    \/ Cancel
    \/ ChmSetup
    \/ Terminate
    \/ Event
    \/ ChmDone
    \/ ChmUpdate
    \/ ChmActivate
    \/ ticker_job
    \/ Host

SpecChm == InitOne /\ [][NextChm]_vars

(***************************************************************************)
(* Properties                                                              *)
(***************************************************************************)
\* C1 (SpecCreate): an ll_sync_create that returns the capacity error, at
\* whichever of its four acquisitions, leaves the free links, the free
\* buffers and the free pool slots as they were before the call, releases
\* nothing twice, and attaches no pending sync to any scan set.
AtomicAcquisition ==
    [][(Create /\ api'.op = "create" /\ api'.ret = "MEM_CAPACITY_EXCEEDED")
       => /\ link_free' = link_free
          /\ rx_free' = rx_free
          /\ sync_free' = sync_free
          /\ errs' = errs
          /\ \A sc \in ScanHandles : per_scan'[sc].sync = NULL]_vars

\* the pool slot was the acquisition that failed: two links and a buffer
\* had been acquired
W_AtomicAcquisition ==
    /\ api.op = "create" /\ api.ret = "MEM_CAPACITY_EXCEEDED" /\ api.stage = 4
    /\ Cardinality(link_free) >= 2 /\ rx_free # {}

\* C2 (SpecSup): for an established context with skip 0 and timeout_reload T,
\* the count of consecutive events without valid reception never exceeds T,
\* loss is declared (one scheduler stop by timeout_cleanup) exactly when the
\* count is T, and the count was T on the event that declared it.
TimeoutLaw ==
    \A h \in Handles :
        (obs[h].estab_put > 0 /\ ll_sync_pool[h].skip = 0) =>
            LET T == ll_sync_pool[h].timeout_reload
            IN  /\ T >= 1
                /\ obs[h].miss <= T
                /\ obs[h].stops = (IF obs[h].miss = T THEN 1 ELSE 0)
                /\ obs[h].loss_at = (IF obs[h].stops = 1 THEN T ELSE 0)

\* loss declared on the 4th consecutive miss with T = 4
W_TimeoutLaw ==
    \E h \in Handles :
        /\ ll_sync_pool[h].timeout_reload = 4
        /\ obs[h].loss_at = 4 /\ obs[h].stops = 1

\* C3 (Spec): at the step of ll_sync_create_cancel that reads timeout_reload
\* after the barrier: if ull_sync_setup has established the context (or
\* detached it before cancel read the reference) the call returns
\* CMD_DISALLOWED and releases nothing; otherwise it returns SUCCESS and two
\* links and one buffer go back to their pools.  No link or buffer is ever
\* released twice, and no link is put on the rx queue after its release.
CancellationRace ==
    /\ [](errs \cap {"link_double_release", "rx_double_release",
                     "link_put_after_release"} = {})
    /\ [][(pc = "cc234" /\ pc' = "idle") =>
            IF tl.sync = NULL \/ obs[tl.sync].estab_put > 0
            THEN /\ api'.op = "cancel" /\ api'.ret = "CMD_DISALLOWED"
                 /\ link_free' = link_free
                 /\ rx_free' = rx_free
                 /\ sync_free' = sync_free
            ELSE /\ api'.op = "cancel" /\ api'.ret = "SUCCESS"
                 /\ link_free \subseteq link_free'
                 /\ Cardinality(link_free') = Cardinality(link_free) + 2
                 /\ rx_free \subseteq rx_free'
                 /\ Cardinality(rx_free') = Cardinality(rx_free) + 1]_vars

\* setup established the context between cancel's read of the reference and
\* its read of timeout_reload: the cancellation was refused
W_CancellationRace ==
    /\ api.op = "cancel" /\ api.ret = "CMD_DISALLOWED" /\ api.stage = 1
    /\ api.handle # NULL
    /\ obs[api.handle].estab_put = 1

ChmSingleFlight ==
    [][\A h \in Handles, acad \in AcadInputs :
          ull_sync_chm_update(h, acad, Len(acad)) =>
            LET s == ll_sync_pool[h]
                t == ll_sync_pool'[h]
            IN  IF s.chm_last # s.chm_first
                THEN t = s
                ELSE \A w \in ChmWellFormed :
                        (w.acad = acad /\ util_ones_count_get(w.map) >= 2) =>
                            /\ t.chm_first = s.chm_first
                            /\ t.chm_last = (s.chm_last + 1) % DOUBLE_BUFFER_SIZE
                            /\ t.chm[t.chm_last] =
                                   [data_chan_map |-> w.map,
                                    data_chan_count |->
                                        util_ones_count_get(w.map)]
                            /\ t.chm[s.chm_first] = s.chm[s.chm_first]
                            /\ t.chm_instant = w.instant]_vars

\* a second update is staged after the first one was activated: the cursors
\* have gone round the double buffer
W_ChmSingleFlight ==
    \E h \in Handles :
        /\ obs[h].estab_put = 1
        /\ ll_sync_pool[h].chm_first = 1 /\ ll_sync_pool[h].chm_last = 0
        /\ ll_sync_pool[h].chm_instant = 300

ChmFloorOnUpdate ==
    [][\A h \in Handles, w \in ChmWellFormed :
          (util_ones_count_get(w.map) < 2
           /\ ull_sync_chm_update(h, w.acad, Len(w.acad))) =>
            LET s == ll_sync_pool[h]
                t == ll_sync_pool'[h]
            IN  /\ t.chm_first = s.chm_first
                /\ t.chm_last = s.chm_last
                /\ t.chm_instant = s.chm_instant
                /\ t.chm[s.chm_first] = s.chm[s.chm_first]]_vars

\* the one-channel record was parsed into the entry not in use, no update is
\* in progress and the entry in use holds a usable map
W_ChmFloorOnUpdate ==
    \E h \in Handles :
        LET s == ll_sync_pool[h]
        IN  /\ obs[h].estab_put = 1
            /\ s.chm_first = s.chm_last
            /\ s.chm[1 - s.chm_first].data_chan_map = ChmOne
            /\ s.chm[1 - s.chm_first].data_chan_count = 1
            /\ s.chm[s.chm_first].data_chan_count >= 2

\* C8 (Spec): the loss-notification link of a context is consumed at most
\* once in the context's lifetime: it is not released twice, not put on the
\* rx queue twice, not put after its release, and sync_lost, cancel and
\* terminate never consume it after one of them has.
LostLinkOnce ==
    /\ errs \cap {"lost_consumed_twice", "link_put_twice",
                  "link_put_after_release", "link_double_release"} = {}
    /\ \A h \in Handles :
          /\ obs[h].lost_put <= 1
          /\ (obs[h].lost_put = 1 => obs[h].lost = "consumed")

\* supervision declared the loss and enqueued the notification; the
\* ll_sync_terminate that followed was rejected
W_LostLinkOnce ==
    /\ api.op = "terminate" /\ api.ret = "CMD_DISALLOWED"
    /\ api.handle \in Handles
    /\ obs[api.handle].lost_put = 1

\* C9 (Spec): an ll_sync_create called while a sync is pending on the 1M
\* scan set, or on the coded scan set when coded PHY is enabled, returns
\* CMD_DISALLOWED and changes nothing else; at most one allocated context is
\* pending (not established, not cancelled) at any time.
PendingSyncs ==
    {h \in Handles : /\ Allocated(h)
                     /\ ll_sync_pool[h].timeout_reload = 0
                     /\ cancel_rx # h}
CreateConflict ==
    /\ [](Cardinality(PendingSyncs) <= 1)
    /\ [][(Create /\ (\/ per_scan[SCAN_HANDLE_1M].sync # NULL
                      \/ (phy_coded
                          /\ per_scan[SCAN_HANDLE_PHY_CODED].sync # NULL)))
          => /\ api'.op = "create" /\ api'.ret = "CMD_DISALLOWED"
             /\ UNCHANGED <<phy_coded, per_scan, ll_sync_pool, sync_free,
                            link_free, rx_free, rx_link, rx_queue, cancel_rx,
                            ticker_node, ticker_ops, ull_ref, mfy_sync_lost,
                            disable_mark, pc, tl, fatal, errs, obs>>]_vars

\* a create was refused while a sync was pending
W_CreateConflict ==
    /\ api.op = "create" /\ api.ret = "CMD_DISALLOWED"
    /\ Cardinality(PendingSyncs) = 1

\* C10 (Spec): a context whose scheduler start is issued, whose entry runs
\* or which has an event in flight has had its establishment notification
\* put on the rx queue, before the start was issued; the notification is put
\* at most once in a lifetime, with status SUCCESS, the handle of the context
\* and the interval and clock accuracy of the descriptor.
StartIssued(h) ==
    \E i \in DOMAIN ticker_ops :
        ticker_ops[i].op = "start" /\ ticker_ops[i].h = h
CancelReleasesPending ==
    /\ [][(pc = "cc234" /\ pc' = "idle" /\ api'.ret = "SUCCESS") =>
            LET sync == tl.sync
                node == per_scan[SCAN_HANDLE_1M].node_rx_estab
                held == {ll_sync_pool[sync].lost_link, rx_link[node]}
            IN  /\ ll_sync_pool[sync].timeout_reload = 0
                /\ \A sc \in ScanHandles : per_scan'[sc].sync = NULL
                /\ Cardinality(held) = 2
                /\ held \cap link_free = {}
                /\ link_free' = link_free \cup held
                /\ node \notin rx_free
                /\ rx_free' = rx_free \cup {node}
                /\ errs' = errs
                /\ tl'.rx = [type |-> "SYNC", handle |-> 65535,
                             status |-> "OP_CANCELLED_BY_HOST",
                             param |-> sync]]_vars
    /\ [][(Create /\ api.op = "cancel" /\ api.ret = "SUCCESS")
          => (api'.op = "create" /\ api'.ret # "CMD_DISALLOWED")]_vars

\* the cancellation succeeded and its notification is with the host
W_CancelReleasesPending ==
    /\ api.op = "cancel" /\ api.ret = "SUCCESS"
    /\ cancel_rx # NULL
    /\ tl.rx.handle = 65535 /\ tl.rx.param = cancel_rx

(***************************************************************************)
(* Establishment with timeouts and intervals over their 16-bit range       *)
(***************************************************************************)
\* Sync_Timeout values of the HCI range (100 ms, 1 s, 163.84 s), in 10 ms
ReloadTimeouts == {10, 100, 16384}
\* intervals of the descriptor, in 1.25 ms: the field is not validated
ReloadIntervals == {0, 2, 6, 80, UINT16 - 1}

ReloadCreate == \E t \in ReloadTimeouts : ll_sync_create(0, 0, t)
ReloadSetup ==
    \E scan \in ScanHandles, i \in ReloadIntervals :
        ull_sync_setup(scan, SyncInfo(ChmTwoSca, i))

NextReload ==
    \/ ReloadCreate
    \/ ReloadSetup
    \/ Event
    \/ ChmDone
    \/ ticker_job
    \/ ll_rx_dequeue

SpecReload == InitOne /\ [][NextReload]_vars

\* C12 (SpecReload): every ull_sync_setup that establishes (the notification
\* is put on the rx queue) stores in timeout_reload the timeout duration
\* divided by the interval, rounded up, a value of at least 1, and no
\* setup divides by a zero interval.
ReloadIsCeiling ==
    /\ [](fatal # "divide_by_zero")
    /\ [][\A scan \in ScanHandles, i \in ReloadIntervals :
            (ull_sync_setup(scan, SyncInfo(ChmTwoSca, i))
             /\ rx_queue' # rx_queue) =>
                LET h == per_scan[scan].sync
                    x == ll_sync_pool[h].timeout * 10 * 1000
                    y == i * CONN_INT_UNIT_US
                IN  /\ y # 0
                    /\ ll_sync_pool'[h].timeout_reload = ((x + y) - 1) \div y
                    /\ ll_sync_pool'[h].timeout_reload >= 1]_vars

\* C13 (Spec): a scheduler start for a handle is issued only while the entry
\* of that handle is not running and no earlier start of it is pending, also
\* after the slot was released and acquired again; hence no start ever fails
\* (ticker_op_cb never asserts) and every pending start finds its entry
\* stopped.
OneEntryPerHandle ==
    /\ [](/\ fatal # "ticker_op_cb"
          /\ \A h \in Handles :
                Cardinality({i \in DOMAIN ticker_ops :
                                ticker_ops[i].op = "start"
                                /\ ticker_ops[i].h = h}) <= 1)
    /\ [][\A h \in Handles :
            (StartIssued(h)' /\ ~StartIssued(h)) =>
                (~ticker_node[h] /\ ~OpPending(h) /\ ull_ref[h] = 0)]_vars

\* the start of handle 0 is pending while the entry of handle 1 runs: slot 0
\* was released and acquired again
W_OneEntryPerHandle ==
    /\ StartIssued(0)
    /\ ticker_node[1] /\ Allocated(1)

\* C14 (Spec): an ll_sync_terminate of a handle that is out of range, or
\* whose context has timeout_reload = 0, returns UNKNOWN_ADV_IDENTIFIER,
\* issues no scheduler stop, marks nothing and releases neither a link nor a
\* pool slot: only the result of the call changes.
TerminateUnknown ==
    [][\A handle \in 0 .. SyncMax :
          (ll_sync_terminate(handle)
           /\ (handle >= SyncMax \/ ll_sync_pool[handle].timeout_reload = 0))
          => /\ api'.op = "terminate" /\ api'.handle = handle
             /\ api'.ret = "UNKNOWN_ADV_IDENTIFIER"
             /\ UNCHANGED <<phy_coded, per_scan, ll_sync_pool, sync_free,
                            link_free, rx_free, rx_link, rx_queue, cancel_rx,
                            ticker_node, ticker_ops, ull_ref, mfy_sync_lost,
                            disable_mark, pc, tl, fatal, errs, obs>>]_vars

\* the terminate of a context that is still pending was answered
W_TerminateUnknown ==
    /\ api.op = "terminate" /\ api.ret = "UNKNOWN_ADV_IDENTIFIER"
    /\ api.handle \in Handles
    /\ per_scan[SCAN_HANDLE_1M].sync = api.handle
    /\ ll_sync_pool[api.handle].timeout_reload = 0

(***************************************************************************)
(* Slot updates of one established context                                  *)
(***************************************************************************)
SlotUpdate ==
    \/ \E h \in Handles : ull_sync_slot_update(h)
    \/ slot_update_ticker_returned
    \/ slot_update_finish

NextSlot ==
    \/ Create
    \/ SupSetup
    \/ Event
    \/ SupDone
    \/ ticker_job
    \/ sync_lost
    \/ ll_rx_dequeue
    \/ SlotUpdate

SpecSlot == InitOne /\ [][NextSlot]_vars

\* C15: when ull_sync_slot_update has returned, sem_ticker_cb counts 0 and
\* the result is 0 for an update that succeeded, -ENOENT for an update that
\* failed because the ticker node was stopped, and -ENOMEM for a request
\* that was not enqueued (its callback never ran)
SlotUpdateResult ==
    (pc = "idle" /\ api.op = "slot_update") =>
        /\ tl.sem = 0
        /\ api.ret = CASE tl.ret_cb = "SUCCESS" -> "0"
                       [] tl.ret_cb = "FAILURE" -> "ENOENT"
                       [] OTHER -> "ENOMEM"

\* the scheduler stop that timeout_cleanup issued for handle h is still queued
LossStopQueued(h) ==
    \E i \in 1 .. Len(ticker_ops) :
        ticker_ops[i] = TickerOp("stop", h, "ULL_HIGH", <<>>)

\* ull_sync_done declares the loss of handle h in this step
LossDeclared(h) == obs'[h].stops = obs[h].stops + 1

\* a sync-lost notification of handle h is enqueued in this step
LostEnqueued(h) ==
    /\ Len(rx_queue') = Len(rx_queue) + 1
    /\ rx_queue'[Len(rx_queue')].type = "SYNC_LOST"
    /\ rx_queue'[Len(rx_queue')].handle = h

\* C16 (Spec): the event that declares loss issues exactly one scheduler stop
\* and no update and leaves the supervision state as it was when the loss was
\* found; the sync-lost notification (handle, kind, back-reference) is
\* enqueued only by the sync_lost task handed over by the stop's completion
\* callback, after the stop completed with success, and exactly once per
\* declared loss: a declared loss is notified, or its stop or its sync_lost
\* task is still to run.
TeardownOnLoss ==
    /\ [](\A h \in Handles :
            /\ obs[h].lost_put <= obs[h].stops
            /\ obs[h].stops <= obs[h].lost_put + 1
            /\ (obs[h].lost_put < obs[h].stops =>
                    LossStopQueued(h) \/ mfy_sync_lost = h))
    /\ [][\A h \in Handles :
            /\ LossDeclared(h) =>
                 /\ ticker_ops' = Append(ticker_ops,
                                     TickerOp("stop", h, "ULL_HIGH", <<>>))
                 /\ ll_sync_pool'[h] =
                        [ll_sync_pool[h] EXCEPT
                            !.timeout_expire =
                                IF @ = 0 THEN ll_sync_pool[h].timeout_reload
                                ELSE @,
                            !.skip_event = ll_sync_pool'[h].skip_event]
                 /\ ll_sync_pool'[h].skip_event
                        \in {ll_sync_pool[h].skip_event, ll_sync_pool[h].skip}
            /\ LostEnqueued(h) =>
                 /\ mfy_sync_lost = h /\ mfy_sync_lost' = NULL
                 /\ ticker_ops' = ticker_ops
                 /\ ~ticker_node[h] /\ ~LossStopQueued(h)
                 /\ obs[h].lost_put + 1 = obs[h].stops
                 /\ rx_queue'[Len(rx_queue')].param = h
            /\ obs'[h].lost_put = obs[h].lost_put + 1 => LostEnqueued(h)]_vars

FreeNotEstablished ==
    \A h \in Handles :
        ~Allocated(h) => ull_sync_is_enabled_get(h) = NULL

\* the context of handle h is pending (attached to a scan set, or cancelled
\* and not yet released by the host) or active (its scheduler entry runs, an
\* event of it is in flight, or its sync-lost notification is queued)
InUse(h) ==
    \/ \E scan \in ScanHandles : per_scan[scan].sync = h
    \/ cancel_rx = h
    \/ ticker_node[h]
    \/ ull_ref[h] > 0
    \/ \E i \in 1 .. Len(rx_queue) :
          rx_queue[i].type = "SYNC_LOST" /\ rx_queue[i].handle = h

\* C19 (Spec): no slot is on the free list more than once and no slot is
\* released while free, so at most SyncMax contexts are allocated; a
\* successful ll_sync_create returns a context that was on the free list and
\* was neither pending nor active, and takes it off the list; with every
\* slot allocated ll_sync_create fails with the capacity error and acquires
\* nothing.
PoolExclusive ==
    /\ [](/\ "sync_double_release" \notin errs
          /\ Len(sync_free) <= SyncMax
          /\ \A i, j \in 1 .. Len(sync_free) :
                i # j => sync_free[i] # sync_free[j])
    /\ [][Create =>
            /\ (api'.ret = "SUCCESS" =>
                  /\ ~Allocated(api'.handle)
                  /\ ~InUse(api'.handle)
                  /\ api'.handle \notin Range(sync_free')
                  /\ Len(sync_free') = Len(sync_free) - 1)
            /\ ((sync_free = <<>> /\ ~create_conflict) =>
                  /\ api'.ret = "MEM_CAPACITY_EXCEEDED"
                  /\ UNCHANGED <<sync_free, link_free, rx_free, per_scan,
                                 ll_sync_pool>>)]_vars

\* both contexts are established and allocated when ll_sync_create has failed
\* at the acquisition of the context
W_PoolExclusive ==
    /\ api.op = "create" /\ api.ret = "MEM_CAPACITY_EXCEEDED" /\ api.stage = 4
    /\ sync_free = <<>>
    /\ \A h \in Handles : ll_sync_pool[h].timeout_reload # 0

(***************************************************************************)
(* Contexts created with every option, used, released and created again    *)
(***************************************************************************)
CreateOptions == 0 .. 3
CreateAny == \E options \in CreateOptions : ll_sync_create(options, 0, 1)
ChmStage ==
    \E h \in Handles :
        ull_sync_chm_update(h, ChmRecord(ChmThree, 5),
                            Len(ChmRecord(ChmThree, 5)))

NextRecreate ==
    \/ CreateAny
    \/ Cancel
    \/ SupSetup
    \/ Terminate
    \/ Event
    \/ SupDone
    \/ ChmStage
    \/ ChmActivate
    \/ ticker_job
    \/ sync_lost
    \/ Host

SpecRecreate == InitOne /\ [][NextRecreate]_vars

\* the context that a successful ll_sync_create returned is initialised, its
\* cursors apart: timers, skip counters and window-widening accumulators are
\* 0, the reporting flag is set exactly when bit 1 of options is, and the
\* context is the pending target of every active scan set
CreateInitFields(options) ==
    LET s == ll_sync_pool'[api'.handle]
    IN  /\ s.timeout_reload = 0 /\ s.timeout_expire = 0
        /\ s.skip_prepare = 0 /\ s.skip_event = 0
        /\ s.window_widening_prepare_us = 0
        /\ s.window_widening_event_us = 0
        /\ (s.is_rx_enabled # 0) <=> ((options \div 2) % 2 = 1)
        /\ \A scan \in ScanHandles :
              (scan = SCAN_HANDLE_1M \/ phy_coded)
                  => per_scan'[scan].sync = api'.handle

\* C20 as stated (SpecRecreate): after every successful ll_sync_create,
\* also of a slot used and released before, the context is fully
\* initialised, with the channel-map cursors aligned (chm_first = chm_last).
CreateInitialisedAligned ==
    [][\A options \in CreateOptions :
          (ll_sync_create(options, 0, 1) /\ api'.ret = "SUCCESS") =>
              /\ CreateInitFields(options)
              /\ ll_sync_pool'[api'.handle].chm_first
                     = ll_sync_pool'[api'.handle].chm_last]_vars

\* C20 amended (SpecRecreate): after every successful ll_sync_create the
\* timers, skip counters and window-widening accumulators are 0, the
\* reporting flag follows bit 1 of options and the context is attached to
\* every active scan set; ll_sync_create does not write the channel-map
\* cursors, which keep what the previous use of the slot left, and
\* ull_sync_setup aligns them when it establishes the context.
CreateInitialised ==
    /\ [][\A options \in CreateOptions :
            (ll_sync_create(options, 0, 1) /\ api'.ret = "SUCCESS") =>
                /\ CreateInitFields(options)
                /\ ll_sync_pool'[api'.handle].chm_first
                       = ll_sync_pool[api'.handle].chm_first
                /\ ll_sync_pool'[api'.handle].chm_last
                       = ll_sync_pool[api'.handle].chm_last]_vars
    /\ [][\A h \in Handles :
            (SupSetup /\ ll_sync_pool[h].timeout_reload = 0
                      /\ ll_sync_pool'[h].timeout_reload # 0) =>
                ll_sync_pool'[h].chm_first = ll_sync_pool'[h].chm_last]_vars

\* ll_sync_create with reporting requested has returned a slot whose previous
\* use ended with a staged channel map that was never activated
W_CreateInitialised ==
    /\ pc = "idle" /\ api.op = "create" /\ api.ret = "SUCCESS"
    /\ per_scan[SCAN_HANDLE_1M].sync = api.handle
    /\ ll_sync_pool[api.handle].timeout_reload = 0
    /\ ll_sync_pool[api.handle].is_rx_enabled # 0
    /\ ll_sync_pool[api.handle].chm_first # ll_sync_pool[api.handle].chm_last

(***************************************************************************)
(* Supervision of one context over the range of skip and skip_event        *)
(***************************************************************************)
\* the radio-prepare step of the event in flight stores the latency of the
\* event, at most the configured skip, in skip_event
lll_sync_prepare(h, lazy) ==
    /\ fatal = "none"
    /\ ull_ref[h] > 0
    /\ lazy <= ll_sync_pool[h].skip
    /\ ll_sync_pool' = [ll_sync_pool EXCEPT ![h].skip_event = lazy]
    /\ UNCHANGED <<phy_coded, per_scan, sync_free, link_free, rx_free,
                   rx_link, rx_queue, cancel_rx, ticker_node, ticker_ops,
                   ull_ref, mfy_sync_lost, disable_mark, pc, tl, api, fatal,
                   errs, obs>>

\* skip and latency values: none, one, and the largest 16-bit value
DoneSkips == {0, 1, UINT16 - 1}
\* receptions: no activity, activity without a valid packet, valid packet
DoneReceptions == {<<0, 0>>, <<1, 0>>, <<1, 1>>}
DoneDrifts == {0, 1}
MaxMiss == 5

DoneCreate == \E skip \in DoneSkips : ll_sync_create(0, skip, 1)
DonePrepare == \E h \in Handles, lazy \in DoneSkips : lll_sync_prepare(h, lazy)
\* the run of events without a valid reception is cut at MaxMiss
DoneEvent ==
    \E h \in Handles, r \in DoneReceptions, dp \in DoneDrifts,
       dm \in DoneDrifts :
        /\ r[2] # 0 \/ obs[h].miss < MaxMiss
        /\ ull_sync_done(h, r[1], r[2], dp, dm)

NextDone ==
    \/ DoneCreate
    \/ SupSetup
    \/ Event
    \/ DonePrepare
    \/ DoneEvent
    \/ ticker_job
    \/ sync_lost
    \/ ll_rx_dequeue

SpecDone == InitOne /\ [][NextDone]_vars

\* a scheduler stop of handle h is appended in this step
StopIssued(h) ==
    /\ Len(ticker_ops') = Len(ticker_ops) + 1
    /\ ticker_ops'[Len(ticker_ops')].op = "stop"
    /\ ticker_ops'[Len(ticker_ops')].h = h

\* C21 (SpecDone): on an ull_sync_done event with a valid reception, whatever
\* skip, skip_event and timeout_expire are, timeout_expire is 0 after the
\* event and no loss is declared: no scheduler stop is issued.
ValidReceptionClears ==
    [][\A h \in Handles, trx \in {0, 1}, dp \in DoneDrifts,
          dm \in DoneDrifts :
          ull_sync_done(h, trx, 1, dp, dm) =>
              /\ ll_sync_pool'[h].timeout_expire = 0
              /\ ~StopIssued(h)
              /\ obs'[h].stops = obs[h].stops
              /\ \A i \in 1 .. Len(ticker_ops') :
                    ticker_ops'[i].op = "stop" =>
                        (i <= Len(ticker_ops) /\ ticker_ops[i] = ticker_ops'[i])
        ]_vars

\* an event with a valid reception has just been handled for a context with
\* skip 1: the countdown is clear, skip_event is re-armed to skip
\* and the update that carries the new laziness is queued
W_ValidReceptionClears ==
    \E h \in Handles :
        /\ ll_sync_pool[h].timeout_reload # 0
        /\ ll_sync_pool[h].skip = 1
        /\ ll_sync_pool[h].skip_event = 1
        /\ ll_sync_pool[h].timeout_expire = 0
        /\ obs[h].miss = 0
        /\ ull_ref[h] = 0
        /\ Len(ticker_ops) = 1
        /\ ticker_ops[1].op = "update" /\ ticker_ops[1].h = h
        /\ ticker_ops[1].arg[3] = 2

\* the scheduler call that the step appends, if it appends one
IssuedOp == ticker_ops'[Len(ticker_ops')]
OpIssued == Len(ticker_ops') = Len(ticker_ops) + 1

\* C22 (SpecDone): on an ull_sync_done event without a valid reception, with
\* elapsed = skip_event + 1 from the skip_event at entry and the countdown
\* armed to timeout_reload when it was 0: a countdown greater than elapsed
\* is decremented by exactly elapsed and stays above 0, skip_event becomes 0,
\* and force is set exactly when the skip_event at entry was not 0;
\* otherwise loss is declared.
MissedReception ==
    [][\A h \in Handles, trx \in {0, 1}, dp \in DoneDrifts,
          dm \in DoneDrifts :
          ull_sync_done(h, trx, 0, dp, dm) =>
              LET s == ll_sync_pool[h]
                  elapsed == s.skip_event + 1
                  armed == IF s.timeout_expire = 0 THEN s.timeout_reload
                           ELSE s.timeout_expire
              IN  IF armed > elapsed
                  THEN /\ ll_sync_pool'[h].timeout_expire = armed - elapsed
                       /\ ll_sync_pool'[h].timeout_expire > 0
                       /\ ll_sync_pool'[h].skip_event = 0
                       /\ ~StopIssued(h)
                       /\ IF s.skip_event # 0
                          THEN /\ OpIssued /\ IssuedOp.op = "update"
                               /\ IssuedOp.arg[4] = 1
                          ELSE OpIssued => IssuedOp.arg[4] = 0
                  ELSE /\ StopIssued(h)
                       /\ obs'[h].stops = obs[h].stops + 1
        ]_vars

\* C23 (SpecDone): on an ull_sync_done event that does not declare loss,
\* lazy is the new skip_event + 1 if force is set or skip_event differs from
\* its value at entry, and 0 otherwise; a scheduler update is issued exactly
\* when one of drift-plus, drift-minus, lazy and force is not 0, and carries
\* those values; otherwise no scheduler call is made.
LazyAndUpdate ==
    [][\A h \in Handles, r \in DoneReceptions, dp \in DoneDrifts,
          dm \in DoneDrifts :
          (ull_sync_done(h, r[1], r[2], dp, dm) /\ ~LossDeclared(h)) =>
              LET s == ll_sync_pool[h]
                  new == ll_sync_pool'[h].skip_event
                  force == IF r[2] = 0 /\ s.skip_event # 0 THEN 1 ELSE 0
                  lazy == IF force # 0 \/ new # s.skip_event
                          THEN new + 1 ELSE 0
                  plus == IF r[1] # 0 THEN dp ELSE 0
                  minus == IF r[1] # 0 THEN dm ELSE 0
              IN  IF plus # 0 \/ minus # 0 \/ lazy # 0 \/ force # 0
                  THEN ticker_ops' =
                           Append(ticker_ops,
                                  TickerOp("update", h, "ULL_HIGH",
                                           <<plus, minus, lazy, force>>))
                  ELSE ticker_ops' = ticker_ops
        ]_vars

====
